---- MODULE Spec2Model ----
(***************************************************************************)
(* A model of the vanity-address search of src/main.rs: N worker threads   *)
(* generate candidates and send them on two mpsc channels, a LogWriter     *)
(* thread drains the attempt channel into rotating files, a ResultWriter   *)
(* thread drains the result channel, owns the found-prefix set and raises  *)
(* the all_found flag, and the main thread joins them.                     *)
(*                                                                         *)
(* Strings are sequences of characters.  A message carries the fields the  *)
(* program's decisions read (counter, public_key, matched_prefix); the     *)
(* timestamp and the private key are opaque payload that is copied         *)
(* verbatim and are left out.  A file holds the lines this run appended.   *)
(*                                                                         *)
(* A flush of a BufWriter whose buffer is empty cannot fail on a File, so  *)
(* finalize (called only after a completed write_line / write_result, or   *)
(* before any write) and the first flush of rotate_file always succeed;    *)
(* the I/O failures are those of opening a file and of writing a line.     *)
(***************************************************************************)
EXTENDS Integers, Sequences, FiniteSets, TLC

\* ------------------------------------------------------------------ bounds
\* Largest worker count tried (num_threads ranges over 1..MaxThreads).
MaxThreads == 2
\* Candidates generated in one behaviour (caps the shared counter).
MaxCounter == 3
\* Log-writer component specification: highest file index drawn, and how
\* far from each end of a file the drawn line counter may lie.
MaxFileIndex == 2
LogWindow == 4

\* Scenario of two matches: the sequence numbers of the only matching
\* candidates (10 and 15 in the scenario as written, scaled to the candidate
\* budget).
ScenarioFirst == 2
ScenarioSecond == 3

\* ------------------------------------------------------- program constants
MAX_LINES_PER_FILE == 1000000

\* ------------------------------------------------------------------ inputs
\* What Keypair::new().pubkey().to_string() may return: one address for
\* each way an address can relate to the prefixes "a", "b" and "ab".
Addresses == { <<"a", "a">>, <<"a", "b">>, <<"b", "a">> }

\* The prefix lists parse_args can hand to main: a single prefix, two
\* disjoint prefixes, a longer prefix before a shorter one it extends, a
\* prefix after one it extends, and a repeated prefix.
TargetLists ==
    { << <<"a">> >>,
      << <<"a">>, <<"b">> >>,
      << <<"a", "b">>, <<"a">> >>,
      << <<"a">>, <<"a", "b">> >>,
      << <<"a">>, <<"a">> >> }

ThreadCounts == 1..MaxThreads

\* Outcome of the I/O of one writer step: every call succeeds, the line
\* write (writeln!/flush) fails, or the open of a file fails.
IOOutcomes == {"ok", "write_err", "open_err"}

\* ------------------------------------------------------------------- state
VARIABLES
    target_prefixes,   \* Vec<String>, fixed at startup
    num_threads,       \* worker count, fixed at startup
    counter,           \* AtomicU64
    found_prefixes,    \* Mutex<HashSet<String>>
    all_found,         \* AtomicBool
    regular_log_chan,  \* queue of the attempt channel
    result_chan,       \* queue of the result channel
    wpc,               \* per worker: "loop", "gen", "send", "done"
    wlocal,            \* per worker: public_key_str, global_counter
    lwpc,              \* LogWriter thread: "new", "recv", "ok", "err"
    log_writer,        \* LogWriter struct: file_index, line_count
    log_files,         \* lines of this run per attempt-log file index
    lines_written,     \* attempt lines written by LogWriter so far
    last_file,         \* file index the latest attempt line went to
    logged,            \* sequence numbers of the attempt lines, in order
    rwpc,              \* ResultWriter thread: "new", "recv", "ok", "err"
    result_file,       \* lines of this run in result.log
    mainpc,            \* main thread position
    sent_regular,      \* every message handed to regular_log_tx.send
    sent_found,        \* every message handed to result_tx.send
    generated,         \* candidates generated so far
    late               \* per worker: candidates generated with all_found set

vars == << target_prefixes, num_threads, counter, found_prefixes, all_found,
           regular_log_chan, result_chan, wpc, wlocal, lwpc, log_writer,
           log_files, lines_written, last_file, logged, rwpc, result_file,
           mainpc, sent_regular, sent_found, generated, late >>

configVars == << target_prefixes, num_threads >>
workerVars == << wpc, wlocal, late >>
logVars == << lwpc, log_writer, log_files, lines_written, last_file, logged >>
resultVars == << rwpc, result_file, found_prefixes, all_found >>
sentVars == << sent_regular, sent_found >>

Workers == 1..num_threads

\* --------------------------------------------------------------- messages
Regular(c, pk) ==
    [kind |-> "Regular", counter |-> c, public_key |-> pk, matched_prefix |-> <<>>]

Found(c, pk, p) ==
    [kind |-> "Found", counter |-> c, public_key |-> pk, matched_prefix |-> p]

NoLocal == [public_key_str |-> <<>>, global_counter |-> 0]

\* ---------------------------------------------------------- pure functions
\* Seeded fault: str::contains in the place of str::starts_with.
ContainsStr(s, p) ==
    \E k \in 0..(Len(s) - Len(p)) : SubSeq(s, k + 1, k + Len(p)) = p

\* str::starts_with
StartsWith(s, p) == Len(p) <= Len(s) /\ SubSeq(s, 1, Len(p)) = p

\* The worker's scan of target_prefixes with break on the first match, from
\* position i on: the index of the prefix sent as matched_prefix, 0 if the
\* loop ends with matched = false.
RECURSIVE ScanFrom(_, _, _)
ScanFrom(i, prefixes, public_key_str) ==
    IF i > Len(prefixes) THEN 0
    ELSE IF StartsWith(public_key_str, prefixes[i]) THEN i
    ELSE ScanFrom(i + 1, prefixes, public_key_str)

\* Seeded fault: the scan without its break, the last match winning.
ScanNoBreak(prefixes, public_key_str) ==
    LET hits == {i \in DOMAIN prefixes : StartsWith(public_key_str, prefixes[i])}
    IN  IF hits = {} THEN 0 ELSE CHOOSE i \in hits : \A j \in hits : j <= i

Scan(prefixes, public_key_str) == ScanFrom(1, prefixes, public_key_str)

\* Seeded fault: the value fetch_add returns, without the + 1.
FetchAddPrevious(c) == c

\* The sequence number captured from the counter value c that fetch_add
\* saw: counter.fetch_add(1) + 1.
FetchAddResult(c) == c + 1

\* Seeded faults: a worker that leaves without reading the flag, and one that
\* never leaves.
BreakAlways(flag) == TRUE

BreakNever(flag) == FALSE

\* The worker's loop exit test: all_found.load(Ordering::Relaxed), the store
\* being visible to every later load.
ShouldBreak(flag) == flag

\* Seeded fault: the found-event recorded without the contains test.
RecordAlways(found_set, matched_prefix) == TRUE

\* !found_set.contains(&matched_prefix)
NotYetRecorded(found_set, matched_prefix) == matched_prefix \notin found_set

\* Seeded fault: completion declared at the first recorded prefix.
AnyTargetFound(found_set, prefixes) == Cardinality(found_set) >= 1

\* found_set.len() >= target_prefixes.len()
AllTargetsFound(found_set, prefixes) == Cardinality(found_set) >= Len(prefixes)

\* ------------------------------------------------------------------ threads
RegularRxAlive == lwpc \in {"new", "recv"}
ResultRxAlive == rwpc \in {"new", "recv"}

\* Seeded fault: a receive that reports closure whenever the queue is empty.
ClosedWhenEmpty == TRUE

\* Every Sender is gone: the workers' clones die with their threads, main
\* drops the originals after joining the workers.
SendersDropped ==
    /\ mainpc \notin {"join_workers", "drop_tx"}
    /\ \A w \in Workers : wpc[w] = "done"

\* Sender::send: queued while the Receiver lives, Err (ignored) otherwise.
SendOn(chan, alive, msg) == IF alive THEN Append(chan, msg) ELSE chan

\* -------------------------------------------------------------- LogWriter
\* LogWriter::rotate_file on the struct lw: the next writer state, the
\* io::Result, and whether a new file was opened.
rotate_file(lw, io) ==
    [file_index |-> lw.file_index + 1,
     line_count |-> 0,
     result |-> IF io = "open_err" THEN "Err" ELSE "Ok",
     opened |-> io # "open_err"]

\* Seeded fault: rotation when line_count exceeds the threshold, not at it.
write_line_late(lw, io) ==
    IF io = "write_err"
    THEN [file_index |-> lw.file_index, line_count |-> lw.line_count,
          result |-> "Err", wrote |-> FALSE, opened |-> FALSE]
    ELSE LET n == lw.line_count + 1 IN
         IF n > MAX_LINES_PER_FILE
         THEN LET r == rotate_file([file_index |-> lw.file_index, line_count |-> n], io)
              IN  [file_index |-> r.file_index, line_count |-> r.line_count,
                   result |-> r.result, wrote |-> TRUE, opened |-> r.opened]
         ELSE [file_index |-> lw.file_index, line_count |-> n,
               result |-> "Ok", wrote |-> TRUE, opened |-> FALSE]

\* LogWriter::write_line on the struct lw: the next writer state, the
\* io::Result, whether the line reached the current file, and whether
\* rotation opened a new file.
write_line(lw, io) ==
    IF io = "write_err"
    THEN [file_index |-> lw.file_index, line_count |-> lw.line_count,
          result |-> "Err", wrote |-> FALSE, opened |-> FALSE]
    ELSE LET n == lw.line_count + 1 IN
         IF n >= MAX_LINES_PER_FILE
         THEN LET r == rotate_file([file_index |-> lw.file_index, line_count |-> n], io)
              IN  [file_index |-> r.file_index, line_count |-> r.line_count,
                   result |-> r.result, wrote |-> TRUE, opened |-> r.opened]
         ELSE [file_index |-> lw.file_index, line_count |-> n,
               result |-> "Ok", wrote |-> TRUE, opened |-> FALSE]

\* The Regular arm of the LogWriter loop: write_line(&log_line)? and its
\* effect on the files.
WriteAttempt(msg, io) ==
    LET r == write_line(log_writer, io)
        f == log_writer.file_index
        appended == IF r.wrote THEN [log_files EXCEPT ![f] = @ + 1] ELSE log_files
    IN  /\ log_writer' = [file_index |-> r.file_index, line_count |-> r.line_count]
        /\ log_files' = IF r.opened THEN (r.file_index :> 0) @@ appended ELSE appended
        /\ lines_written' = IF r.wrote THEN lines_written + 1 ELSE lines_written
        /\ last_file' = IF r.wrote THEN f ELSE last_file
        /\ logged' = IF r.wrote THEN Append(logged, msg.counter) ELSE logged
        /\ lwpc' = IF r.result = "Ok" THEN "recv" ELSE "err"

\* LogWriter::new()? at the head of the thread.
LogWriterNew(io) ==
    /\ lwpc = "new"
    /\ IF io = "open_err"
       THEN /\ lwpc' = "err"
            /\ regular_log_chan' = <<>>
            /\ UNCHANGED log_files
       ELSE /\ lwpc' = "recv"
            /\ log_files' = (0 :> 0)
            /\ UNCHANGED regular_log_chan
    /\ UNCHANGED << configVars, counter, generated, result_chan, workerVars,
                    log_writer, lines_written, last_file, logged, resultVars,
                    mainpc, sentVars >>

\* One turn of the LogWriter loop: regular_log_rx.recv() returns the head
\* of the queue, or Err once the queue is empty and every Sender is gone.
LogWriterRecv(io) ==
    /\ lwpc = "recv"
    /\ regular_log_chan # <<>> \/ SendersDropped
    /\ IF regular_log_chan # <<>>
       THEN LET msg == Head(regular_log_chan) IN
            /\ IF msg.kind = "Regular"
               THEN WriteAttempt(msg, io)
               ELSE UNCHANGED logVars
            /\ regular_log_chan' = IF lwpc' = "recv" THEN Tail(regular_log_chan) ELSE <<>>
       ELSE /\ lwpc' = "ok"
            /\ UNCHANGED << regular_log_chan, log_writer, log_files,
                            lines_written, last_file, logged >>
    /\ UNCHANGED << configVars, counter, generated, result_chan, workerVars,
                    resultVars, mainpc, sentVars >>

\* ------------------------------------------------------------ ResultWriter
\* ResultWriter::new()? at the head of the thread.
ResultWriterNew(io) ==
    /\ rwpc = "new"
    /\ IF io = "open_err"
       THEN /\ rwpc' = "err"
            /\ result_chan' = <<>>
       ELSE /\ rwpc' = "recv"
            /\ UNCHANGED result_chan
    /\ UNCHANGED << configVars, counter, generated, regular_log_chan, workerVars,
                    logVars, result_file, found_prefixes, all_found, mainpc,
                    sentVars >>

\* Seeded fault: a result line whose prefix field holds the whole address.
ResultLineWholeAddress(msg) ==
    [prefix |-> msg.public_key, counter |-> msg.counter,
     public_key |-> msg.public_key]

\* ResultWriter::write_result: the line appended to result.log.
ResultLine(msg) ==
    [prefix |-> msg.matched_prefix, counter |-> msg.counter,
     public_key |-> msg.public_key]

\* One turn of the ResultWriter loop.
ResultWriterRecv(io) ==
    /\ rwpc = "recv"
    /\ result_chan # <<>> \/ SendersDropped
    /\ IF result_chan # <<>>
       THEN LET msg == Head(result_chan) IN
            IF msg.kind = "Found" /\ NotYetRecorded(found_prefixes, msg.matched_prefix)
            THEN /\ found_prefixes' = found_prefixes \cup {msg.matched_prefix}
                 /\ IF io = "write_err"
                    THEN /\ rwpc' = "err"
                         /\ result_chan' = <<>>
                         /\ UNCHANGED << result_file, all_found >>
                    ELSE /\ result_file' = Append(result_file, ResultLine(msg))
                         /\ IF AllTargetsFound(found_prefixes', target_prefixes)
                            THEN /\ all_found' = TRUE
                                 /\ rwpc' = "ok"
                                 /\ result_chan' = <<>>
                            ELSE /\ result_chan' = Tail(result_chan)
                                 /\ UNCHANGED << all_found, rwpc >>
            ELSE /\ result_chan' = Tail(result_chan)
                 /\ UNCHANGED resultVars
       ELSE /\ rwpc' = "ok"
            /\ UNCHANGED << result_chan, result_file, found_prefixes, all_found >>
    /\ UNCHANGED << configVars, counter, generated, regular_log_chan, workerVars,
                    logVars, mainpc, sentVars >>

\* ----------------------------------------------------------------- workers
\* Workers between the all_found check and the fetch_add.
InFlight == Cardinality({w \in Workers : wpc[w] = "gen"})

\* Top of the worker loop: all_found.load, then break or go on.  A new
\* iteration starts only while the candidate budget has room for it.
WorkerCheck(w) ==
    /\ wpc[w] = "loop"
    /\ IF ShouldBreak(all_found)
       THEN wpc' = [wpc EXCEPT ![w] = "done"]
       ELSE /\ counter + InFlight < MaxCounter
            /\ wpc' = [wpc EXCEPT ![w] = "gen"]
    /\ UNCHANGED << configVars, counter, generated, regular_log_chan, result_chan,
                    wlocal, late, logVars, resultVars, mainpc, sentVars >>

\* Keypair::new() and counter.fetch_add(1) + 1.
WorkerGenerate(w, public_key_str) ==
    /\ wpc[w] = "gen"
    /\ counter' = counter + 1
    /\ generated' = generated + 1
    /\ wlocal' = [wlocal EXCEPT ![w] = [public_key_str |-> public_key_str,
                                        global_counter |-> FetchAddResult(counter)]]
    /\ late' = [late EXCEPT ![w] = IF all_found THEN @ + 1 ELSE @]
    /\ wpc' = [wpc EXCEPT ![w] = "send"]
    /\ UNCHANGED << configVars, regular_log_chan, result_chan, logVars,
                    resultVars, mainpc, sentVars >>

\* Seeded fault: the worker sends an attempt record for every candidate.
AlwaysUnmatched(matched) == TRUE

\* if !matched
NotMatched(matched) == ~matched

\* Seeded fault: the worker leaves when a send returns Err.
StopOnSendError(send_ok) == IF send_ok THEN "loop" ELSE "done"

\* let _ = tx.send(..): the Result is discarded and the loop goes on.
AfterSend(send_ok) == "loop"

\* Seeded fault: the worker records its match in the found-prefix set itself.
WorkerSendRecording(w) ==
    /\ wpc[w] = "send"
    /\ LET pk == wlocal[w].public_key_str
           c == wlocal[w].global_counter
           i == Scan(target_prefixes, pk)
       IN  IF i # 0
           THEN /\ result_chan' = SendOn(result_chan, ResultRxAlive,
                                         Found(c, pk, target_prefixes[i]))
                /\ sent_found' = Append(sent_found, Found(c, pk, target_prefixes[i]))
                /\ found_prefixes' = found_prefixes \cup {target_prefixes[i]}
                /\ UNCHANGED << regular_log_chan, sent_regular >>
           ELSE /\ regular_log_chan' = SendOn(regular_log_chan, RegularRxAlive,
                                              Regular(c, pk))
                /\ sent_regular' = Append(sent_regular, Regular(c, pk))
                /\ UNCHANGED << result_chan, sent_found, found_prefixes >>
    /\ wpc' = [wpc EXCEPT ![w] = "loop"]
    /\ wlocal' = [wlocal EXCEPT ![w] = NoLocal]
    /\ UNCHANGED << configVars, counter, generated, late, logVars, rwpc,
                    result_file, all_found, mainpc >>

\* The prefix scan and the one send of the iteration.
WorkerSend(w) ==
    /\ wpc[w] = "send"
    /\ LET pk == wlocal[w].public_key_str
           c == wlocal[w].global_counter
           i == Scan(target_prefixes, pk)
           matched == i # 0
           unmatched == NotMatched(matched)
           failed == (IF matched /\ ~ResultRxAlive THEN 1 ELSE 0)
                       + (IF unmatched /\ ~RegularRxAlive THEN 1 ELSE 0)
       IN  /\ result_chan' =
                 IF matched
                 THEN SendOn(result_chan, ResultRxAlive, Found(c, pk, target_prefixes[i]))
                 ELSE result_chan
           /\ sent_found' =
                 IF matched
                 THEN Append(sent_found, Found(c, pk, target_prefixes[i]))
                 ELSE sent_found
           /\ regular_log_chan' =
                 IF unmatched
                 THEN SendOn(regular_log_chan, RegularRxAlive, Regular(c, pk))
                 ELSE regular_log_chan
           /\ sent_regular' =
                 IF unmatched
                 THEN Append(sent_regular, Regular(c, pk))
                 ELSE sent_regular
           /\ wpc' = [wpc EXCEPT ![w] = AfterSend(failed = 0)]
    /\ wlocal' = [wlocal EXCEPT ![w] = NoLocal]
    /\ UNCHANGED << configVars, counter, generated, late, logVars, resultVars,
                    mainpc >>

\* -------------------------------------------------------------------- main
\* for handle in handles { handle.join().unwrap(); }
MainJoinWorkers ==
    /\ mainpc = "join_workers"
    /\ \A w \in Workers : wpc[w] = "done"
    /\ mainpc' = "drop_tx"
    /\ UNCHANGED << configVars, counter, generated, regular_log_chan, result_chan,
                    workerVars, logVars, resultVars, sentVars >>

\* drop(regular_log_tx); drop(result_tx);
MainDropSenders ==
    /\ mainpc = "drop_tx"
    /\ mainpc' = "join_log"
    /\ UNCHANGED << configVars, counter, generated, regular_log_chan, result_chan,
                    workerVars, logVars, resultVars, sentVars >>

\* log_writer_handle.join().unwrap()?
MainJoinLogWriter ==
    /\ mainpc = "join_log"
    /\ lwpc \in {"ok", "err"}
    /\ mainpc' = IF lwpc = "ok" THEN "join_result" ELSE "failed"
    /\ UNCHANGED << configVars, counter, generated, regular_log_chan, result_chan,
                    workerVars, logVars, resultVars, sentVars >>

\* result_writer_handle.join().unwrap()?
MainJoinResultWriter ==
    /\ mainpc = "join_result"
    /\ rwpc \in {"ok", "err"}
    /\ mainpc' = IF rwpc = "ok" THEN "report" ELSE "failed"
    /\ UNCHANGED << configVars, counter, generated, regular_log_chan, result_chan,
                    workerVars, logVars, resultVars, sentVars >>

\* found_prefixes.lock(), the closing messages, Ok(()).
MainReport ==
    /\ mainpc = "report"
    /\ mainpc' = "done"
    /\ UNCHANGED << configVars, counter, generated, regular_log_chan, result_chan,
                    workerVars, logVars, resultVars, sentVars >>

\* ---------------------------------------------------------- specifications
Init ==
    /\ target_prefixes \in TargetLists
    /\ num_threads \in ThreadCounts
    /\ counter = 0
    /\ found_prefixes = {}
    /\ all_found = FALSE
    /\ regular_log_chan = <<>>
    /\ result_chan = <<>>
    /\ wpc = [w \in 1..num_threads |-> "loop"]
    /\ wlocal = [w \in 1..num_threads |-> NoLocal]
    /\ lwpc = "new"
    /\ log_writer = [file_index |-> 0, line_count |-> 0]
    /\ log_files = <<>>
    /\ lines_written = 0
    /\ last_file = 0
    /\ logged = <<>>
    /\ rwpc = "new"
    /\ result_file = <<>>
    /\ mainpc = "join_workers"
    /\ sent_regular = <<>>
    /\ sent_found = <<>>
    /\ generated = 0
    /\ late = [w \in 1..num_threads |-> 0]

Worker(w) ==
    \/ WorkerCheck(w)
    \/ \E public_key_str \in Addresses : WorkerGenerate(w, public_key_str)
    \/ WorkerSend(w)

LogWriterThread == \E io \in IOOutcomes : LogWriterNew(io) \/ LogWriterRecv(io)

ResultWriterThread == \E io \in IOOutcomes : ResultWriterNew(io) \/ ResultWriterRecv(io)

MainThread ==
    \/ MainJoinWorkers
    \/ MainDropSenders
    \/ MainJoinLogWriter
    \/ MainJoinResultWriter
    \/ MainReport

Next ==
    \/ \E w \in Workers : WorkerCheck(w)
    \/ \E w \in Workers, public_key_str \in Addresses : WorkerGenerate(w, public_key_str)
    \/ \E w \in Workers : WorkerSend(w)
    \/ LogWriterThread
    \/ ResultWriterThread
    \/ MainThread

Spec == Init /\ [][Next]_vars

\* Every thread that can take a step eventually takes one.
Fairness ==
    /\ \A w \in ThreadCounts : WF_vars(w \in Workers /\ Worker(w))
    /\ WF_vars(LogWriterThread)
    /\ WF_vars(ResultWriterThread)
    /\ WF_vars(MainThread)

FairSpec == Init /\ [][Next]_vars /\ Fairness

\* The LogWriter on its own, far into a run.  A writer that has completed k
\* calls of write_line without error holds file_index = k \div T and
\* line_count = k % T, has filled the files below file_index and put
\* line_count lines into the current one; InitLog draws such writers with
\* line_count near either end of a file (logged then lists only the lines
\* written from the drawn state on), and LogWriterWrites hands them up to
\* LogWindow further attempt records.
LineCounts ==
    (0..LogWindow) \cup ((MAX_LINES_PER_FILE - 1 - LogWindow)..(MAX_LINES_PER_FILE - 1))

InitLog ==
    /\ target_prefixes = << <<"a">> >>
    /\ num_threads = 1
    /\ counter = 0
    /\ found_prefixes = {}
    /\ all_found = FALSE
    /\ regular_log_chan = <<>>
    /\ result_chan = <<>>
    /\ wpc = [w \in 1..num_threads |-> "loop"]
    /\ wlocal = [w \in 1..num_threads |-> NoLocal]
    /\ lwpc = "recv"
    /\ \E i \in 0..MaxFileIndex, c \in LineCounts :
          /\ log_writer = [file_index |-> i, line_count |-> c]
          /\ log_files = [j \in 0..i |-> IF j < i THEN MAX_LINES_PER_FILE ELSE c]
          /\ lines_written = i * MAX_LINES_PER_FILE + c
          /\ last_file = IF c = 0 /\ i > 0 THEN i - 1 ELSE i
    /\ logged = <<>>
    /\ rwpc = "recv"
    /\ result_file = <<>>
    /\ mainpc = "join_workers"
    /\ sent_regular = <<>>
    /\ sent_found = <<>>
    /\ generated = 0
    /\ late = [w \in 1..num_threads |-> 0]

LogWriterWrites(io) ==
    /\ lwpc = "recv"
    /\ Len(logged) < LogWindow
    /\ WriteAttempt(Regular(lines_written + 1, <<"b", "a">>), io)
    /\ UNCHANGED << configVars, counter, generated, regular_log_chan, result_chan,
                    workerVars, resultVars, mainpc, sentVars >>

NextLog == \E io \in IOOutcomes : LogWriterWrites(io)

SpecLog == InitLog /\ [][NextLog]_vars

\* The scenario of two matches: prefixes ["aa", "bb"], MaxThreads workers,
\* a generator whose candidate number ScenarioFirst starts with "aa", whose
\* candidate number ScenarioSecond starts with "bb" and whose other
\* candidates match nothing, and no I/O failure.
ScenarioPrefixes == << <<"a", "a">>, <<"b", "b">> >>

ScenarioAddress(seq) ==
    IF seq = ScenarioFirst THEN <<"a", "a">>
    ELSE IF seq = ScenarioSecond THEN <<"b", "b">>
    ELSE <<"a", "b">>

InitScenario ==
    /\ target_prefixes = ScenarioPrefixes
    /\ num_threads = MaxThreads
    /\ counter = 0
    /\ found_prefixes = {}
    /\ all_found = FALSE
    /\ regular_log_chan = <<>>
    /\ result_chan = <<>>
    /\ wpc = [w \in 1..num_threads |-> "loop"]
    /\ wlocal = [w \in 1..num_threads |-> NoLocal]
    /\ lwpc = "new"
    /\ log_writer = [file_index |-> 0, line_count |-> 0]
    /\ log_files = <<>>
    /\ lines_written = 0
    /\ last_file = 0
    /\ logged = <<>>
    /\ rwpc = "new"
    /\ result_file = <<>>
    /\ mainpc = "join_workers"
    /\ sent_regular = <<>>
    /\ sent_found = <<>>
    /\ generated = 0
    /\ late = [w \in 1..num_threads |-> 0]

NextScenario ==
    \/ \E w \in Workers : WorkerCheck(w)
    \/ \E w \in Workers : WorkerGenerate(w, ScenarioAddress(FetchAddResult(counter)))
    \/ \E w \in Workers : WorkerSend(w)
    \/ LogWriterNew("ok")
    \/ LogWriterRecv("ok")
    \/ ResultWriterNew("ok")
    \/ ResultWriterRecv("ok")
    \/ MainThread

SpecScenario == InitScenario /\ [][NextScenario]_vars

\* ------------------------------------------------------------------ claims
\* The vocabulary of the claims, defined without the program's operators.
IsPrefixOf(p, s) == \E n \in 0..Len(s) : p = [k \in 1..n |-> s[k]]

TargetSet == {target_prefixes[i] : i \in DOMAIN target_prefixes}

LinesFor(p) == {i \in DOMAIN result_file : result_file[i].prefix = p}

AllSent == sent_regular \o sent_found

AllWorkersExited == \A w \in Workers : wpc[w] = "done"

\* The run has terminated: the workers have exited, main has dropped both
\* producer handles, and both writers have returned Ok.
Terminated ==
    /\ AllWorkersExited
    /\ mainpc \notin {"join_workers", "drop_tx"}
    /\ lwpc = "ok"
    /\ rwpc = "ok"

\* C1: in every state where the run has terminated with both writers Ok,
\* every prefix of the target list is in the found-prefix set and the result
\* file holds exactly one line per target prefix and no other line.
C1_TerminatedMeansAllFound ==
    Terminated =>
        /\ \A i \in DOMAIN target_prefixes :
              /\ target_prefixes[i] \in found_prefixes
              /\ Cardinality(LinesFor(target_prefixes[i])) = 1
        /\ \A i \in DOMAIN result_file : result_file[i].prefix \in TargetSet
        /\ Len(result_file) = Len(target_prefixes)

\* C1 witness: a run over two target prefixes and two workers has terminated.
C1_Witness ==
    /\ Terminated
    /\ Len(target_prefixes) = 2
    /\ num_threads = 2
    /\ mainpc = "done"

\* C3: no two lines of the result file carry the same prefix, and each
\* prefix of the found-prefix set stands for exactly one attempted line,
\* however many found-events for it were sent.
C3_NoDuplicatePrefix ==
    /\ \A i, j \in DOMAIN result_file :
          i # j => result_file[i].prefix # result_file[j].prefix
    /\ Cardinality(found_prefixes) <= Cardinality(TargetSet)
    /\ rwpc # "err" => Len(result_file) = Cardinality(found_prefixes)

\* C3 witness: two workers each sent a found-event for the same prefix, the
\* ResultWriter has dequeued both and is waiting again, and the prefix has
\* its line.
C3_Witness ==
    /\ rwpc = "recv"
    /\ result_chan = <<>>
    /\ \E i, j \in DOMAIN sent_found :
          /\ i # j
          /\ sent_found[i].matched_prefix = sent_found[j].matched_prefix
          /\ Cardinality(LinesFor(sent_found[i].matched_prefix)) = 1
          /\ sent_found[i].matched_prefix \in found_prefixes

\* C5: the sequence numbers of all messages ever sent, and of all lines
\* written, are pairwise distinct and lie in 1..counter, and counter equals
\* the number of candidates generated.
C5_SequenceNumbersUnique ==
    /\ counter = generated
    /\ \A i, j \in DOMAIN AllSent :
          i # j => AllSent[i].counter # AllSent[j].counter
    /\ \A i \in DOMAIN AllSent : AllSent[i].counter \in 1..counter
    /\ \A w \in Workers :
          wpc[w] = "send" =>
              /\ wlocal[w].global_counter \in 1..counter
              /\ \A i \in DOMAIN AllSent :
                    AllSent[i].counter # wlocal[w].global_counter
              /\ \A v \in Workers :
                    v # w /\ wpc[v] = "send" =>
                        wlocal[v].global_counter # wlocal[w].global_counter
    /\ \A i \in DOMAIN logged : logged[i] \in 1..counter
    /\ \A i, j \in DOMAIN logged : i # j => logged[i] # logged[j]
    /\ \A i \in DOMAIN result_file :
          /\ result_file[i].counter \in 1..counter
          /\ \A j \in DOMAIN logged : logged[j] # result_file[i].counter

\* C5 witness: two workers have sent, one an attempt record and one a
\* found-event, and both have been written.
C5_Witness ==
    /\ num_threads = 2
    /\ Len(logged) >= 1
    /\ Len(result_file) >= 1
    /\ counter >= 3

\* C6: every line of the result file records a prefix of the target list
\* that its public address starts with.
C6_ResultLineStartsWithPrefix ==
    \A i \in DOMAIN result_file :
        /\ IsPrefixOf(result_file[i].prefix, result_file[i].public_key)
        /\ result_file[i].prefix \in TargetSet

\* C6 witness: the result file holds a line for the two-character prefix
\* and a line for a one-character prefix.
C6_Witness ==
    /\ \E i \in DOMAIN result_file : Len(result_file[i].prefix) = 2
    /\ \E i \in DOMAIN result_file : Len(result_file[i].prefix) = 1

\* The earliest entry of the target list the address starts with.
EarliestListed(address) ==
    CHOOSE i \in DOMAIN target_prefixes :
        /\ IsPrefixOf(target_prefixes[i], address)
        /\ \A j \in 1..(i - 1) : ~IsPrefixOf(target_prefixes[j], address)

MatchesListed(address) ==
    \E i \in DOMAIN target_prefixes : IsPrefixOf(target_prefixes[i], address)

\* C7: a candidate whose address starts with a listed prefix is sent as
\* exactly one found-event, attributed to the earliest such entry of the
\* list, and as no attempt record; every completed iteration has sent one
\* message.
C7_EarliestPrefixOnly ==
    /\ \A i \in DOMAIN sent_found :
          /\ MatchesListed(sent_found[i].public_key)
          /\ sent_found[i].matched_prefix =
                 target_prefixes[EarliestListed(sent_found[i].public_key)]
          /\ \A j \in DOMAIN sent_found :
                i # j => sent_found[i].counter # sent_found[j].counter
    /\ \A i \in DOMAIN sent_regular : ~MatchesListed(sent_regular[i].public_key)
    /\ Len(sent_found) + Len(sent_regular)
          = generated - Cardinality({w \in Workers : wpc[w] = "send"})

\* C7 witness: with the list ["a", "ab"], an address starting with "ab" was
\* sent as a found-event for "a".
C7_Witness ==
    /\ target_prefixes = << <<"a">>, <<"a", "b">> >>
    /\ \E i \in DOMAIN sent_found :
          /\ sent_found[i].public_key = <<"a", "b">>
          /\ sent_found[i].matched_prefix = <<"a">>

\* C8: all_found starts false, only ever changes from false to true, is
\* stored by a ResultWriter step and by no other, is stored once (the
\* ResultWriter has returned when it is true), and when it is true the
\* found-prefix set has as many elements as the target list and every
\* element has its line in the result file.
C8_FlagSetOnlyBy ==
    all_found' # all_found =>
        /\ ~all_found
        /\ all_found'
        /\ rwpc = "recv"
        /\ rwpc' = "ok"
        /\ UNCHANGED << workerVars, logVars, mainpc, counter >>

C8_WhenSet ==
    all_found =>
        /\ rwpc = "ok"
        /\ Cardinality(found_prefixes) = Len(target_prefixes)
        /\ \A p \in found_prefixes : Cardinality(LinesFor(p)) = 1

C8_AllFoundOneWay ==
    /\ ~all_found
    /\ [][C8_FlagSetOnlyBy]_vars
    /\ [][all_found => all_found']_vars
    /\ []C8_WhenSet

\* C8 witness: all_found is true in a run over two target prefixes.
C8_Witness ==
    /\ all_found
    /\ Len(target_prefixes) = 2
    /\ Len(result_file) = 2

\* C9: a worker leaves its loop only from the top of the loop with
\* all_found true; a worker inside an iteration can always take its next
\* step and does not leave before the iteration's send; and no worker
\* generates more than one candidate after all_found became true.
C9_ExitOnlyAtTop ==
    \A w \in Workers :
        (wpc[w] # "done" /\ wpc'[w] = "done") => (wpc[w] = "loop" /\ all_found)

C9_IterationOrder ==
    \A w \in Workers :
        /\ (wpc[w] = "gen" /\ wpc'[w] # "gen") =>
              (wpc'[w] = "send" /\ counter' = counter + 1)
        /\ (wpc[w] = "send" /\ wpc'[w] # "send") =>
              (/\ wpc'[w] = "loop"
               /\ Len(sent_found') + Len(sent_regular')
                     = Len(sent_found) + Len(sent_regular) + 1)

C9_InFlightNeverBlocked ==
    \A w \in Workers :
        /\ wpc[w] = "gen" => ENABLED (\E pk \in Addresses : WorkerGenerate(w, pk))
        /\ wpc[w] = "send" => ENABLED WorkerSend(w)

C9_AtMostOneLate == \A w \in Workers : late[w] <= 1

C9_CooperativeCancellation ==
    /\ [][C9_ExitOnlyAtTop]_vars
    /\ [][C9_IterationOrder]_vars
    /\ [](C9_InFlightNeverBlocked /\ C9_AtMostOneLate)

\* C9 witness: a worker that had passed the check when all_found was set
\* has generated one more candidate, sent it and left the loop.
C9_Witness ==
    \E w \in Workers : late[w] = 1 /\ wpc[w] = "done"

\* C10: no attempt log file receives more than MAX_LINES_PER_FILE lines of
\* the run; the k-th line written goes to file (k - 1) \div
\* MAX_LINES_PER_FILE; file_index never decreases and grows by one exactly
\* when the line that fills the file is written; and line_count is in
\* 0..MAX_LINES_PER_FILE - 1 whenever write_line has returned.
C10_Files ==
    /\ \A i \in DOMAIN log_files : log_files[i] <= MAX_LINES_PER_FILE
    /\ lines_written >= 1 => last_file = (lines_written - 1) \div MAX_LINES_PER_FILE
    /\ log_writer.line_count \in 0..(MAX_LINES_PER_FILE - 1)

C10_Rotate ==
    \/ log_writer'.file_index = log_writer.file_index
    \/ /\ log_writer'.file_index = log_writer.file_index + 1
       /\ log_writer.line_count = MAX_LINES_PER_FILE - 1
       /\ log_writer'.line_count = 0
       /\ lines_written' = lines_written + 1

C10_RotationAtThreshold == []C10_Files /\ [][C10_Rotate]_vars

\* C10 witness: the writer filled a file, rotated, and has written two lines
\* into the next file.
C10_Witness ==
    /\ lwpc = "recv"
    /\ log_writer.file_index >= 1
    /\ log_writer.line_count = 2
    /\ Len(logged) > 2
    /\ log_files[log_writer.file_index] = 2
    /\ log_files[log_writer.file_index - 1] = MAX_LINES_PER_FILE

\* Every prefix of the target list is in the found-prefix set.
AllTargetsRecorded ==
    \A i \in DOMAIN target_prefixes : target_prefixes[i] \in found_prefixes

\* The run has ended: the workers have exited, both writers have returned
\* and main has returned.
RunEnded ==
    /\ AllWorkersExited
    /\ lwpc \in {"ok", "err"}
    /\ rwpc \in {"ok", "err"}
    /\ mainpc \in {"done", "failed"}

\* C2: for any target list, repeated prefixes included, once every prefix
\* of the list is recorded in the found-prefix set the run terminates,
\* all_found becoming true first.  The ResultWriter tests for completion in
\* the step that records a prefix and in no other, and no prefix is recorded
\* twice, so the step that records the last missing prefix must leave
\* all_found true: absent a writer failure, all_found holds in every state
\* in which every prefix is recorded.
C2_AllRecordedRaisesFlag ==
    (AllTargetsRecorded /\ rwpc # "err") => all_found

\* C2 as stated, for behaviours in which every thread keeps being scheduled.
C2_AllRecordedLeadsToEnd ==
    (AllTargetsRecorded /\ rwpc # "err") ~> RunEnded

\* The run can still end: workers leave only on all_found, which is true
\* already or can still be stored by a ResultWriter that is running.
RunCanEnd == all_found \/ rwpc \in {"new", "recv"}

\* C4: when a writer stops on an I/O failure the run ends and main reports
\* the error.  A run that is to end must be able to: in every state in which
\* a writer has failed, all_found is true or the ResultWriter is still there
\* to store it; and a main that has returned Ok has seen no writer fail.
C4_WriterFailureEndsRun ==
    /\ (lwpc = "err" \/ rwpc = "err") => RunCanEnd
    /\ mainpc = "done" => (lwpc = "ok" /\ rwpc = "ok")

\* C4 as stated, for behaviours in which every thread keeps being scheduled.
C4_WriterFailureLeadsToReport ==
    (lwpc = "err" \/ rwpc = "err") ~> (mainpc = "failed")

\* C11: main drops the producer handles only after every worker has exited;
\* the LogWriter sees the attempt channel closed only then, with the queue
\* drained; and when the LogWriter has returned Ok the attempt log holds one
\* line for every attempt record ever sent, in the order sent, which is one
\* line per generated candidate that matched no prefix.
C11_DropAfterJoin ==
    (mainpc \in {"join_workers", "drop_tx"} /\ mainpc' \notin {"join_workers", "drop_tx"})
        => AllWorkersExited

C11_ClosureAfterLastSend ==
    (lwpc = "recv" /\ lwpc' = "ok") =>
        /\ AllWorkersExited
        /\ mainpc \notin {"join_workers", "drop_tx"}
        /\ regular_log_chan = <<>>
        /\ UNCHANGED << log_files, lines_written, logged >>

C11_AllAttemptsLogged ==
    lwpc = "ok" =>
        /\ logged = [i \in DOMAIN sent_regular |-> sent_regular[i].counter]
        /\ lines_written = Len(sent_regular)
        /\ lines_written = generated - Len(sent_found)

C11_NoLostAttempts ==
    /\ [][C11_DropAfterJoin]_vars
    /\ [][C11_ClosureAfterLastSend]_vars
    /\ []C11_AllAttemptsLogged

\* C11 witness: the LogWriter has returned Ok after writing the attempt
\* records of two workers.
C11_Witness ==
    /\ lwpc = "ok"
    /\ num_threads = 2
    /\ lines_written >= 2
    /\ mainpc = "done"

\* C12 as stated: in the scenario of two matches the result file holds the
\* line for "aa" first and the line for "bb" second, in every interleaving,
\* and all_found is true only once both lines are written.
C12_AaThenBb ==
    /\ Len(result_file) >= 1 => result_file[1].prefix = <<"a", "a">>
    /\ Len(result_file) >= 2 => result_file[2].prefix = <<"b", "b">>
    /\ Len(result_file) <= 2
    /\ all_found => Len(result_file) = 2

\* C12 amended: the result file ends with exactly two lines, one for "aa"
\* with sequence number ScenarioFirst and one for "bb" with ScenarioSecond,
\* in the order in which the two found-events were sent on the result
\* channel, whichever that is; all_found is stored in the step that writes
\* the second line.
C12_LinesInSendOrder ==
    /\ Len(result_file) <= 2
    /\ Len(result_file) <= Len(sent_found)
    /\ \A i \in DOMAIN result_file :
          /\ result_file[i] = ResultLine(sent_found[i])
          /\ result_file[i].prefix = <<"a", "a">> => result_file[i].counter = ScenarioFirst
          /\ result_file[i].prefix = <<"b", "b">> => result_file[i].counter = ScenarioSecond
    /\ all_found =>
          {result_file[i].prefix : i \in DOMAIN result_file} = {<<"a", "a">>, <<"b", "b">>}
    /\ all_found <=> Len(result_file) = 2
    /\ mainpc = "done" => all_found

C12_FlagWithSecondLine ==
    (~all_found /\ all_found') => (Len(result_file) = 1 /\ Len(result_file') = 2)

C12_TwoLinesEitherOrder == []C12_LinesInSendOrder /\ [][C12_FlagWithSecondLine]_vars

\* C12 witness: the run has ended with the line for "bb" written before the
\* line for "aa".
C12_Witness ==
    /\ mainpc = "done"
    /\ all_found
    /\ result_file[1].prefix = <<"b", "b">>
    /\ result_file[2].prefix = <<"a", "a">>

\* A step in which worker w makes a send that returns Err.
FailedSendBy(w) ==
    /\ wpc[w] = "send"
    /\ wpc'[w] # "send"
    /\ \/ sent_found' # sent_found /\ ~ResultRxAlive
       \/ sent_regular' # sent_regular /\ ~RegularRxAlive

\* C13: a send that fails because the receiver is gone is no error for the
\* worker: the worker is back at the top of its loop, the message is in
\* neither queue, and the counter, the flag, the found-prefix set, the files
\* and the other threads are as before; a worker leaves its loop only from
\* the top with all_found true, so while all_found is false no worker has
\* left, whichever receivers are gone.
C13_FailedSendIsDropped ==
    \A w \in Workers :
        FailedSendBy(w) =>
            /\ wpc'[w] = "loop"
            /\ UNCHANGED << regular_log_chan, result_chan, counter, generated,
                            late, all_found, found_prefixes, result_file,
                            logVars, rwpc, mainpc >>
            /\ \A v \in Workers : v # w => wpc'[v] = wpc[v] /\ wlocal'[v] = wlocal[v]

C13_NoExitWithoutFlag == \A w \in Workers : wpc[w] = "done" => all_found

C13_SendFailureSwallowed ==
    /\ [][C13_FailedSendIsDropped]_vars
    /\ [][C9_ExitOnlyAtTop]_vars
    /\ []C13_NoExitWithoutFlag

\* Workers that generated a candidate after all_found was stored; their
\* candidates carry the highest sequence numbers.
LateWorkers == {w \in Workers : late[w] >= 1}

\* C13 witness: a found-event was sent after the ResultWriter had stored
\* all_found and returned, so its send failed, and its worker went on to the
\* all_found test and left the loop there.
C13_Witness ==
    /\ all_found
    /\ AllWorkersExited
    /\ \E i \in DOMAIN sent_found :
          sent_found[i].counter > counter - Cardinality(LateWorkers)

\* C14: a worker step leaves the found-prefix set and all_found unchanged
\* (and with them the files, the writers and main); a LogWriter step leaves
\* both unchanged; the found-prefix set changes only by a ResultWriter step,
\* which adds one prefix to it; and main, its only other reader, reads it
\* after the ResultWriter has returned.
C14_WorkerFrame ==
    (wpc' # wpc \/ wlocal' # wlocal \/ late' # late \/ counter' # counter
       \/ sent_found' # sent_found \/ sent_regular' # sent_regular)
        => UNCHANGED << found_prefixes, all_found, result_file, rwpc, logVars,
                        mainpc, configVars >>

C14_LogWriterFrame ==
    logVars' # logVars => UNCHANGED << found_prefixes, all_found >>

C14_FoundSetOwner ==
    found_prefixes' # found_prefixes =>
        /\ rwpc = "recv"
        /\ \E p \in TargetSet :
              p \notin found_prefixes /\ found_prefixes' = found_prefixes \cup {p}
        /\ UNCHANGED << workerVars, counter, logVars, mainpc, sentVars >>

C14_MainReadsAfterReturn == mainpc \in {"report", "done"} => rwpc = "ok"

C14_SingleWriter ==
    /\ [][C14_WorkerFrame]_vars
    /\ [][C14_LogWriterFrame]_vars
    /\ [][C14_FoundSetOwner]_vars
    /\ []C14_MainReadsAfterReturn

\* C14 witness: main has read the found-prefix set, which the ResultWriter
\* filled with two prefixes while two workers ran.
C14_Witness ==
    /\ mainpc = "done"
    /\ num_threads = 2
    /\ Cardinality(found_prefixes) = 2
    /\ counter >= 3

\* The found-events the ResultWriter has dequeued so far, in order, while
\* its receiver lives: what was sent less what is still queued.
Dequeued == SubSeq(sent_found, 1, Len(sent_found) - Len(result_chan))

\* A ResultWriter step that dequeues the head of the result channel.
DequeueStep ==
    /\ rwpc = "recv"
    /\ result_chan # <<>>
    /\ Len(result_chan') < Len(result_chan) \/ rwpc' # rwpc

\* C15: the line in the result file for a prefix is the first found-event
\* for that prefix the ResultWriter dequeued, whatever its sequence number;
\* lines once written stay as they are; and dequeuing a found-event whose
\* prefix is already in the found-prefix set changes neither the set, the
\* file nor all_found, and the ResultWriter goes on receiving.
C15_FirstDequeued ==
    ResultRxAlive =>
        /\ \A k \in DOMAIN Dequeued : Dequeued[k].matched_prefix \in found_prefixes
        /\ \A i \in DOMAIN result_file :
              \E k \in DOMAIN Dequeued :
                  /\ Dequeued[k].matched_prefix = result_file[i].prefix
                  /\ \A j \in 1..(k - 1) :
                        Dequeued[j].matched_prefix # result_file[i].prefix
                  /\ result_file[i].counter = Dequeued[k].counter
                  /\ result_file[i].public_key = Dequeued[k].public_key

C15_LinesKept ==
    /\ Len(result_file') >= Len(result_file)
    /\ \A i \in DOMAIN result_file : result_file'[i] = result_file[i]
    /\ ~ResultRxAlive => result_file' = result_file

C15_DuplicateIgnored ==
    (DequeueStep /\ Head(result_chan).matched_prefix \in found_prefixes) =>
        /\ UNCHANGED << found_prefixes, result_file, all_found, rwpc >>
        /\ result_chan' = Tail(result_chan)

C15_FirstWriterWins ==
    /\ []C15_FirstDequeued
    /\ [][C15_LinesKept]_vars
    /\ [][C15_DuplicateIgnored]_vars

\* C15 witness: the ResultWriter has dequeued two found-events for one
\* prefix, wrote the line of the first, which carries the higher sequence
\* number, discarded the second and is receiving again.
C15_Witness ==
    /\ rwpc = "recv"
    /\ \E i \in DOMAIN result_file, k \in DOMAIN Dequeued :
          /\ Dequeued[k].matched_prefix = result_file[i].prefix
          /\ Dequeued[k].counter < result_file[i].counter

\* C16: a worker step that completes an iteration emits exactly one message
\* for its candidate, a found-event on the result channel if the address
\* starts with a listed prefix and an attempt record on the attempt channel
\* otherwise, and nothing else emits a message; the attempt channel carries
\* attempt records only and the result channel found-events only; and no
\* sequence number is both in an attempt log and in the result file.
C16_CompletesIteration(w) == wpc[w] = "send" /\ wpc'[w] # "send"

C16_OneMessage ==
    /\ \A w \in Workers :
          C16_CompletesIteration(w) =>
              LET pk == wlocal[w].public_key_str
                  c == wlocal[w].global_counter
              IN  IF MatchesListed(pk)
                  THEN /\ Len(sent_found') = Len(sent_found) + 1
                       /\ sent_found'[Len(sent_found')].kind = "Found"
                       /\ sent_found'[Len(sent_found')].counter = c
                       /\ sent_found'[Len(sent_found')].public_key = pk
                       /\ sent_regular' = sent_regular
                       /\ regular_log_chan' = regular_log_chan
                       /\ ResultRxAlive =>
                             result_chan' = Append(result_chan, sent_found'[Len(sent_found')])
                  ELSE /\ Len(sent_regular') = Len(sent_regular) + 1
                       /\ sent_regular'[Len(sent_regular')].kind = "Regular"
                       /\ sent_regular'[Len(sent_regular')].counter = c
                       /\ sent_regular'[Len(sent_regular')].public_key = pk
                       /\ sent_found' = sent_found
                       /\ result_chan' = result_chan
                       /\ RegularRxAlive =>
                             regular_log_chan' = Append(regular_log_chan, sent_regular'[Len(sent_regular')])
    /\ (sent_found' # sent_found \/ sent_regular' # sent_regular) =>
          \E w \in Workers : C16_CompletesIteration(w)

C16_Separate ==
    /\ \A i \in DOMAIN regular_log_chan : regular_log_chan[i].kind = "Regular"
    /\ \A i \in DOMAIN result_chan : result_chan[i].kind = "Found"
    /\ \A i \in DOMAIN sent_regular, j \in DOMAIN sent_found :
          sent_regular[i].counter # sent_found[j].counter
    /\ \A i \in DOMAIN logged :
          /\ \E j \in DOMAIN sent_regular : sent_regular[j].counter = logged[i]
          /\ \A j \in DOMAIN result_file : result_file[j].counter # logged[i]
    /\ \A i \in DOMAIN result_file :
          \E j \in DOMAIN sent_found : sent_found[j].counter = result_file[i].counter

C16_ExactlyOneMessage == [][C16_OneMessage]_vars /\ []C16_Separate

\* C16 witness: iterations of both kinds have completed, every worker is
\* between iterations, both channels are drained, and an attempt line and
\* a result line have been written.
C16_Witness ==
    /\ \A w \in Workers : wpc[w] = "loop"
    /\ sent_found # <<>> /\ sent_regular # <<>>
    /\ regular_log_chan = <<>> /\ result_chan = <<>>
    /\ Len(logged) = Len(sent_regular)
    /\ result_file # <<>>

\* The entries of the target list that an earlier entry is a prefix of,
\* a repeated entry included.
ShadowedEntries ==
    {j \in DOMAIN target_prefixes :
        \E i \in 1..(j - 1) : IsPrefixOf(target_prefixes[i], target_prefixes[j])}

FilePrefixes == {result_file[i].prefix : i \in DOMAIN result_file}

\* C18: while the ResultWriter waits on receive or has returned Ok, the
\* found-prefix set is exactly the set of prefixes with a line in the
\* result file, has as many elements as the file has lines, and lies
\* within the target list; a step that adds a prefix to the set appends
\* the line for that prefix in the same step, or else ends the
\* ResultWriter in error, after which no worker exits and main never
\* comes to read the set.
C18_SetMatchesFile ==
    /\ rwpc \in {"recv", "ok"} =>
          /\ found_prefixes = FilePrefixes
          /\ Cardinality(found_prefixes) = Len(result_file)
          /\ found_prefixes \subseteq TargetSet
    /\ found_prefixes # FilePrefixes =>
          /\ rwpc = "err"
          /\ ~all_found
          /\ \A w \in Workers : wpc[w] # "done"
          /\ mainpc = "join_workers"

C18_InsertWithAppend ==
    found_prefixes' # found_prefixes =>
        /\ rwpc = "recv"
        /\ \E p \in TargetSet \ found_prefixes :
              /\ found_prefixes' = found_prefixes \cup {p}
              /\ \/ /\ Len(result_file') = Len(result_file) + 1
                    /\ result_file'[Len(result_file')].prefix = p
                    /\ rwpc' \in {"recv", "ok"}
                 \/ /\ result_file' = result_file
                    /\ rwpc' = "err"
        /\ UNCHANGED << workerVars, mainpc, logVars >>

C18_SetAndFileTogether == []C18_SetMatchesFile /\ [][C18_InsertWithAppend]_vars

\* C18 witness: the ResultWriter has recorded one prefix of a longer list,
\* line and set element together, and waits on receive while a worker is
\* in the middle of an iteration.
C18_Witness ==
    /\ rwpc = "recv"
    /\ Len(result_file) = 1
    /\ Cardinality(found_prefixes) = 1
    /\ Len(target_prefixes) = 2
    /\ \E w \in Workers : wpc[w] = "send"

\* The ResultWriter's receive would report closure: its queue is empty and
\* every producer handle is gone.
ClosureObservable == rwpc = "recv" /\ result_chan = <<>> /\ SendersDropped

\* C19: the ResultWriter can never observe closure of the result channel
\* while all_found is false: the producer handles are dropped only after
\* every worker has exited, a worker has exited only with all_found true,
\* and by then the ResultWriter has returned; and the ResultWriter returns
\* Ok only by the step that records the last prefix and stores all_found.
C19_NoClosureObserved ==
    /\ ~ClosureObservable
    /\ SendersDropped => AllWorkersExited /\ all_found /\ rwpc = "ok"
    /\ (\E w \in Workers : wpc[w] = "done") => all_found
    /\ rwpc = "ok" => all_found

C19_OkOnlyByAllFound ==
    (rwpc # "ok" /\ rwpc' = "ok") =>
        /\ rwpc = "recv"
        /\ result_chan # <<>>
        /\ Head(result_chan).matched_prefix \notin found_prefixes
        /\ found_prefixes' = found_prefixes \cup {Head(result_chan).matched_prefix}
        /\ Cardinality(found_prefixes') >= Len(target_prefixes)
        /\ ~all_found /\ all_found'
        /\ ~SendersDropped

C19_ClosedBranchUnreachable ==
    []C19_NoClosureObserved /\ [][C19_OkOnlyByAllFound]_vars

\* C19 witness: the producer handles have been dropped, after every worker
\* exited, and the ResultWriter had already returned Ok.
C19_Witness ==
    /\ SendersDropped
    /\ AllWorkersExited
    /\ rwpc = "ok"
    /\ mainpc \in {"join_log", "join_result"}

====
